---- MODULE Spec2Model ----
(***************************************************************************)
(* Model of the file encryption engine of EncryptDcrypt:                   *)
(*   src/src/encryptdecrypt/core/engine.py      EncryptionEngine           *)
(*   src/src/encryptdecrypt/utils/file_utils.py is_encrypted_file          *)
(*   src/src/encryptdecrypt/gui/interface.py    batch worker threads       *)
(* File contents are byte sequences (Seq(0..255)).  The Fernet token       *)
(* framing (version, timestamp, IV, PKCS7 padding, tag, URL-safe base64)   *)
(* is computed byte for byte; the two cryptographic primitives inside it   *)
(* (AES-128-CBC and HMAC-SHA256) are replaced by a keyed byte-wise         *)
(* bijection and a keyed checksum of the same sizes.                       *)
(*                                                                         *)
(* A value computed once and used several times is passed as an operator   *)
(* argument (f(x) == ... x ... x ...) rather than bound by LET.            *)
(***************************************************************************)
EXTENDS Integers, Sequences, FiniteSets, TLC

\* ------------------------------------------------------------------ bytes

Rep(b, n) == [i \in 1..n |-> b]

Take(s, n) == SubSeq(s, 1, IF n < Len(s) THEN n ELSE Len(s))

StartsWith(s, p) == Len(s) >= Len(p) /\ SubSeq(s, 1, Len(p)) = p

Min(a, b) == IF a < b THEN a ELSE b

MinOf(S) == CHOOSE j \in S : \A i \in S : j <= i

\* F(x), with x worked out once however often F uses it
Once(F(_), x) == CHOOSE y \in {F(v) : v \in {x}} : TRUE

\* '='
PadChar == 61

\* b'gAAAAA'
FernetPrefix == <<103, 65, 65, 65, 65, 65>>

\* ------------------------------------------------------- URL-safe base64

\* the 64 characters A-Z a-z 0-9 - _ in value order
B64Char(v) ==
    IF v < 26 THEN 65 + v
    ELSE IF v < 52 THEN 97 + (v - 26)
    ELSE IF v < 62 THEN 48 + (v - 52)
    ELSE IF v = 62 THEN 45 ELSE 95

\* value of a character for urlsafe_b64decode: '-' and '_' are translated to
\* '+' and '/', which are themselves accepted; -1 for any other byte
B64Val(c) ==
    IF c >= 65 /\ c <= 90 THEN c - 65
    ELSE IF c >= 97 /\ c <= 122 THEN c - 97 + 26
    ELSE IF c >= 48 /\ c <= 57 THEN c - 48 + 52
    ELSE IF c = 45 \/ c = 43 THEN 62
    ELSE IF c = 95 \/ c = 47 THEN 63
    ELSE 0 - 1

ByteAt(bs, i) == IF i <= Len(bs) THEN bs[i] ELSE 0

\* the pos-th 6-bit group of the three bytes b0 b1 b2
B64Sextet(b0, b1, b2, pos) ==
    IF pos = 0 THEN b0 \div 4
    ELSE IF pos = 1 THEN (b0 % 4) * 16 + (b1 \div 16)
    ELSE IF pos = 2 THEN (b1 % 16) * 4 + (b2 \div 64)
    ELSE b2 % 64

\* character pos (0..3) of output group g (0..): '=' where the input has ended
B64EncodeAt(bs, g, pos) ==
    IF (pos = 2 /\ 3 * g + 2 > Len(bs)) \/ (pos = 3 /\ 3 * g + 3 > Len(bs))
    THEN PadChar
    ELSE B64Char(B64Sextet(ByteAt(bs, 3 * g + 1), ByteAt(bs, 3 * g + 2),
                           ByteAt(bs, 3 * g + 3), pos))

\* base64.urlsafe_b64encode
B64Encode(bs) ==
    [j \in 1..(4 * ((Len(bs) + 2) \div 3)) |-> B64EncodeAt(bs, (j - 1) \div 4, (j - 1) % 4)]

IsB64Char(c) == B64Val(c) >= 0

IsB64CharOrPad(c) == B64Val(c) >= 0 \/ c = PadChar

\* t: the input without the bytes outside the alphabet, which the scan skips;
\* pads: the positions of '=' in t.  quad_pos when the scan reaches position j
QuadPos(pads, j) == (j - Cardinality({i \in pads : i <= j})) % 4

\* the number of '=' that have followed the last character, the one at j included
PadRun(pads, j) == Cardinality({i \in pads : i <= j /\ \A h \in i..j : h \in pads})

B64ScanResult(stopped, chars) ==
    Once(LAMBDA cs : [ok |-> stopped \/ Len(cs) % 4 = 0,
                      vals |-> [k \in 1..Len(cs) |-> B64Val(cs[k])]],
         chars)

B64ScanEnd(t, stops) ==
    B64ScanResult(stops # {},
                  IF stops = {} THEN SelectSeq(t, IsB64Char)
                  ELSE SelectSeq(SubSeq(t, 1, MinOf(stops) - 1), IsB64Char))

B64ScanPads(t, pads) ==
    B64ScanEnd(t, {j \in pads : QuadPos(pads, j) >= 2
                                /\ QuadPos(pads, j) + PadRun(pads, j) >= 4})

B64ScanClean(t) == B64ScanPads(t, {j \in 1..Len(t) : t[j] = PadChar})

\* the scan of binascii.a2b_base64 (non-strict): [ok, vals].  Bytes outside the
\* alphabet are skipped.  A '=' ends the data when the open quad holds 2 or 3
\* characters (quad_pos >= 2) and, counting this one, enough '=' have followed
\* the last character (quad_pos + pads >= 4); every other '=' is skipped.  A quad
\* left open at the end of the input is an error (binascii.Error).
B64Scan(s) == Once(B64ScanClean, SelectSeq(s, IsB64CharOrPad))

\* the byte made of the 6-bit values v[a], v[a+1], starting o bits into v[a]
B64OctetAt(v, a, o) ==
    IF o = 0 THEN v[a] * 4 + (v[a + 1] \div 16)
    ELSE IF o = 2 THEN (v[a] % 16) * 16 + (v[a + 1] \div 4)
    ELSE (v[a] % 4) * 64 + v[a + 1]

B64OctetCount(m) ==
    (m \div 4) * 3 + (IF m % 4 = 2 THEN 1 ELSE IF m % 4 = 3 THEN 2 ELSE 0)

B64Octets(r) ==
    IF r.ok
    THEN [ok |-> TRUE,
          data |-> [k \in 1..B64OctetCount(Len(r.vals)) |->
                       B64OctetAt(r.vals, (8 * (k - 1)) \div 6 + 1, (8 * (k - 1)) % 6)]]
    ELSE [ok |-> FALSE, data |-> <<>>]

\* base64.urlsafe_b64decode: [ok, data]; ok = FALSE models binascii.Error
B64Decode(s) == Once(B64Octets, B64Scan(s))

\* --------------------------------------------------------------- Fernet

\* sizes fixed by the Fernet token format (cryptography.fernet)
KeyLen == 32
HalfKeyLen == 16
BlockLen == 16
TagLen == 32
TimeLen == 8
VersionByte == 128

\* int.to_bytes(w, "big")
RECURSIVE BigEndian(_, _)
BigEndian(x, w) == IF w = 0 THEN <<>> ELSE Append(BigEndian(x \div 256, w - 1), x % 256)

\* PKCS7(128).padder(): 1..16 bytes, each holding the pad length
Pkcs7Pad(data) == data \o Rep(BlockLen - (Len(data) % BlockLen), BlockLen - (Len(data) % BlockLen))

\* a slip: the padding is checked but not removed
Pkcs7CheckKeepsPadding(padded, n) ==
    IF Len(padded) % BlockLen # 0 \/ n < 1 \/ n > BlockLen
    THEN [ok |-> FALSE, data |-> <<>>]
    ELSE [ok |-> TRUE, data |-> padded]

\* the unpadder's check of the last byte n of the padded data
Pkcs7Check(padded, n) ==
    IF Len(padded) % BlockLen # 0 \/ n < 1 \/ n > BlockLen
       \/ \E i \in (Len(padded) - n + 1)..Len(padded) : padded[i] # n
    THEN [ok |-> FALSE, data |-> <<>>]
    ELSE [ok |-> TRUE, data |-> SubSeq(padded, 1, Len(padded) - n)]

\* PKCS7(128).unpadder(): [ok, data]; ok = FALSE models ValueError
Pkcs7Unpad(padded) ==
    IF Len(padded) = 0 THEN [ok |-> FALSE, data |-> <<>>]
    ELSE Pkcs7Check(padded, padded[Len(padded)])

\* position i of a key or IV repeated over the blocks
BlockByte(k, i) == k[((i - 1) % BlockLen) + 1]

\* stand-in for AES-128-CBC: a bijection on byte sequences for each (key, iv)
CbcEncrypt(ekey, iv, padded) ==
    Once(LAMBDA pt : [i \in 1..Len(pt) |-> (pt[i] + BlockByte(ekey, i) + BlockByte(iv, i)) % 256],
         padded)

CbcDecrypt(ekey, iv, ct) ==
    Once(LAMBDA c : [i \in 1..Len(c) |-> (c[i] + 512 - BlockByte(ekey, i) - BlockByte(iv, i)) % 256],
         ct)

\* stand-in for HMAC-SHA256: a 32-byte tag, a position-weighted checksum of key
\* and message (every change of a single byte changes it)
RECURSIVE WeightedSum(_, _, _)
WeightedSum(bs, lo, hi) ==
    IF lo > hi THEN 0
    ELSE IF lo = hi THEN lo * (bs[lo] + 1)
    ELSE WeightedSum(bs, lo, (lo + hi) \div 2) + WeightedSum(bs, (lo + hi) \div 2 + 1, hi)

TagOf(h) == <<h \div 256, h % 256>> \o Rep(0, TagLen - 2)

Checksum(m) == Once(LAMBDA bs : TagOf(WeightedSum(bs, 1, Len(bs)) % 65521), m)

Hmac(skey, msg) == Checksum(skey \o msg)

FernetKeys(d) ==
    IF d.ok /\ Len(d.data) = KeyLen
    THEN [ok |-> TRUE,
          signing_key |-> SubSeq(d.data, 1, HalfKeyLen),
          encryption_key |-> SubSeq(d.data, HalfKeyLen + 1, KeyLen)]
    ELSE [ok |-> FALSE, signing_key |-> <<>>, encryption_key |-> <<>>]

\* Fernet(key): [ok, signing_key, encryption_key]; ok = FALSE models the ValueError
\* "Fernet key must be 32 url-safe base64-encoded bytes."
FernetNew(key) == FernetKeys(B64Decode(key))

\* Fernet.generate_key(): urlsafe_b64encode(os.urandom(32))
FernetGenerateKey(random32) == B64Encode(random32)

FernetSign(skey, basic_parts) == Once(B64Encode, basic_parts \o Hmac(skey, basic_parts))

\* Fernet.encrypt(data) at time now with the 16 random bytes iv
FernetEncrypt(f, data, now, iv) ==
    Once(LAMBDA basic_parts : FernetSign(f.signing_key, basic_parts),
         <<VersionByte>> \o BigEndian(now, TimeLen) \o iv
         \o CbcEncrypt(f.encryption_key, iv, Pkcs7Pad(data)))

\* Fernet._decrypt_data on the decoded token: version, signature, padding
FernetDecryptData(f, data) ==
    IF Len(data) = 0 THEN [ok |-> FALSE, data |-> <<>>]
    ELSE IF data[1] # VersionByte \/ Len(data) < 1 + TimeLen + BlockLen + TagLen
         THEN [ok |-> FALSE, data |-> <<>>]
    ELSE IF Hmac(f.signing_key, SubSeq(data, 1, Len(data) - TagLen))
                # SubSeq(data, Len(data) - TagLen + 1, Len(data))
         THEN [ok |-> FALSE, data |-> <<>>]
    ELSE Once(Pkcs7Unpad,
              CbcDecrypt(f.encryption_key,
                         SubSeq(data, 1 + TimeLen + 1, 1 + TimeLen + BlockLen),
                         SubSeq(data, 1 + TimeLen + BlockLen + 1, Len(data) - TagLen)))

FernetDecryptDecoded(f, d) ==
    IF d.ok THEN FernetDecryptData(f, d.data) ELSE [ok |-> FALSE, data |-> <<>>]

\* Fernet.decrypt(token), ttl = None: [ok, data]; ok = FALSE models InvalidToken
FernetDecrypt(f, token) == Once(LAMBDA d : FernetDecryptDecoded(f, d), B64Decode(token))

\* hashlib.sha256(...).hexdigest(), idealised as a collision-free digest
Sha256(bs) == <<"sha256", bs>>

\* -------------------------------------------------------------- detector

MinTokenLen == 44
ReadLen == 100
AlphabetLen == 50
MinDecodedLen == 32

\* a slip: every printable character is taken for a base64 character
InPrintableChars(c) == c > 32 /\ c < 127

\* b in base64_chars: A-Z a-z 0-9 - _
InBase64Chars(c) ==
    \/ c >= 65 /\ c <= 90
    \/ c >= 97 /\ c <= 122
    \/ c >= 48 /\ c <= 57
    \/ c = 45 \/ c = 95

\* the "more strict check" on decoded = base64.urlsafe_b64decode(data)
DecodedLongEnough(decoded) == decoded.ok /\ Len(decoded.data) >= MinDecodedLen

\* the checks of is_encrypted_file on data = file.read(100)
LooksEncryptedData(data) ==
    IF Len(data) < MinTokenLen THEN FALSE
    ELSE IF StartsWith(data, FernetPrefix) THEN TRUE
    ELSE IF \A i \in 1..Min(AlphabetLen, Len(data)) : InBase64Chars(data[i])
         THEN DecodedLongEnough(B64Decode(data))
         ELSE FALSE

\* a slip: too few bytes are read for the length check to pass
LooksEncryptedShortRead(content) == LooksEncryptedData(Take(content, MinTokenLen - 4))

\* the body of is_encrypted_file's outer try on the bytes of a readable file
LooksEncrypted(content) == Once(LooksEncryptedData, Take(content, ReadLen))

\* ----------------------------------------------------------- file system

Paths == {"key.txt", "key2.txt", "f1", "f2", "f3.encrypted"}

DataPaths == {"f1", "f2"}

\* the data files live in the directory "files", the key files in "."
Directories == {"files"}

DirOf(path) == IF path \in DataPaths \cup {"f3.encrypted"} THEN "files" ELSE "."

\* Path(path).suffix
Suffix(path) ==
    IF path = "f3.encrypted" THEN ".encrypted"
    ELSE IF path \in {"key.txt", "key2.txt"} THEN ".txt"
    ELSE ""

\* a regular file: its bytes and whether the process may read and write it
\* ("rw"), only read it ("ro") or neither ("none")
File(bytes, mode) == [exists |-> TRUE, data |-> bytes, mode |-> mode]

NoFile == [exists |-> FALSE, data |-> <<>>, mode |-> "none"]

\* open(path, "rb") followed by read(): the exception raised, "" for none
ReadExc(fsys, path) ==
    IF ~fsys[path].exists THEN "FileNotFoundError"
    ELSE IF fsys[path].mode = "none" THEN "PermissionError"
    ELSE ""

\* open(path, "wb"): the exception raised, "" for none
WriteExc(fsys, path) ==
    IF fsys[path].exists /\ fsys[path].mode # "rw" THEN "PermissionError" ELSE ""

\* a slip: the file is opened with "ab" and the old content stays in front
WriteFileAppending(fsys, path, bytes) ==
    [fsys EXCEPT ![path] = File(fsys[path].data \o bytes, "rw")]

\* open(path, "wb") followed by write(bytes): the old content is replaced
WriteFile(fsys, path, bytes) == [fsys EXCEPT ![path] = File(bytes, "rw")]

\* str(e) of the exceptions the engine catches; InvalidToken carries no message
ExcText(exc) ==
    IF exc = "FileNotFoundError" THEN "[Errno 2] No such file or directory"
    ELSE IF exc = "PermissionError" THEN "[Errno 13] Permission denied"
    ELSE IF exc = "ValueError" THEN "Fernet key must be 32 url-safe base64-encoded bytes."
    ELSE ""

\* ---------------------------------------------------------------- engine

\* EncryptionEngine.calculate_file_hash of a readable file
calculate_file_hash(fsys, path) == Sha256(fsys[path].data)

\* a try block left by an exception: nothing was written
Raised(exc, fsys) == [exc |-> exc, fs |-> fsys, result |-> <<>>]

\* the "except Exception" clause shared by encrypt_file and decrypt_file
ErrorResult(path, exc) == [status |-> "error", file |-> path, error |-> ExcText(exc)]

\* [fs, result, exc]: the files and the returned dict; exc names what was caught
Caught(path, t) ==
    IF t.exc = "" THEN [fs |-> t.fs, result |-> t.result, exc |-> ""]
    ELSE [fs |-> t.fs, result |-> ErrorResult(path, t.exc), exc |-> t.exc]

\* a slip: the hash reported as original_hash is taken after the write
EncryptFileWriteHashAfter(fsys, path, original_hash, data, encrypted_data) ==
    IF WriteExc(fsys, path) # "" THEN Raised(WriteExc(fsys, path), fsys)
    ELSE [exc |-> "",
          fs |-> WriteFile(fsys, path, encrypted_data),
          result |-> [status |-> "success",
                      file_path |-> path,
                      original_hash |->
                          calculate_file_hash(WriteFile(fsys, path, encrypted_data), path),
                      encrypted_hash |->
                          calculate_file_hash(WriteFile(fsys, path, encrypted_data), path),
                      file_size |-> Len(data),
                      encrypted_size |-> Len(encrypted_data)]]

\* encrypt_file from the write on: data was read and encrypted to encrypted_data
EncryptFileWrite(fsys, path, original_hash, data, encrypted_data) ==
    IF WriteExc(fsys, path) # "" THEN Raised(WriteExc(fsys, path), fsys)
    ELSE [exc |-> "",
          fs |-> WriteFile(fsys, path, encrypted_data),
          result |-> [status |-> "success",
                      file_path |-> path,
                      original_hash |-> original_hash,
                      encrypted_hash |->
                          calculate_file_hash(WriteFile(fsys, path, encrypted_data), path),
                      file_size |-> Len(data),
                      encrypted_size |-> Len(encrypted_data)]]

\* a slip: a file that looks encrypted is refused
EncryptFileTryRefusingTokens(fsys, fernet, path, now, iv) ==
    IF ReadExc(fsys, path) # "" THEN Raised(ReadExc(fsys, path), fsys)
    ELSE IF LooksEncrypted(fsys[path].data) THEN Raised("ValueError", fsys)
    ELSE EncryptFileWrite(fsys, path, calculate_file_hash(fsys, path), fsys[path].data,
                          FernetEncrypt(fernet, fsys[path].data, now, iv))

\* the try block of encrypt_file: [exc, fs, result]
EncryptFileTry(fsys, fernet, path, now, iv) ==
    IF ReadExc(fsys, path) # "" THEN Raised(ReadExc(fsys, path), fsys)
    ELSE Once(LAMBDA encrypted_data :
                  EncryptFileWrite(fsys, path, calculate_file_hash(fsys, path),
                                   fsys[path].data, encrypted_data),
              FernetEncrypt(fernet, fsys[path].data, now, iv))

\* EncryptionEngine.encrypt_file: [fs, result, exc]; the body never reads
\* preserve_original
encrypt_file(fsys, fernet, path, preserve_original, now, iv) ==
    Once(LAMBDA t : Caught(path, t), EncryptFileTry(fsys, fernet, path, now, iv))

\* a slip: InvalidToken is swallowed and whatever came out is written
DecryptFileWriteUnchecked(fsys, path, encrypted_hash, decrypted) ==
    [exc |-> "",
     fs |-> WriteFile(fsys, path, decrypted.data),
     result |-> [status |-> "success", file_path |-> path,
                 encrypted_hash |-> encrypted_hash,
                 decrypted_hash |-> Sha256(decrypted.data),
                 file_size |-> Len(decrypted.data)]]

\* a slip: the file is opened for writing before the token is decrypted
DecryptFileWriteTruncating(fsys, path, encrypted_hash, decrypted) ==
    IF WriteExc(fsys, path) # "" THEN Raised(WriteExc(fsys, path), fsys)
    ELSE IF ~decrypted.ok THEN Raised("InvalidToken", WriteFile(fsys, path, <<>>))
    ELSE [exc |-> "",
          fs |-> WriteFile(fsys, path, decrypted.data),
          result |-> [status |-> "success", file_path |-> path,
                      encrypted_hash |-> encrypted_hash,
                      decrypted_hash |-> Sha256(decrypted.data),
                      file_size |-> Len(decrypted.data)]]

\* decrypt_file from the decryption on: decrypted is [ok, data]
DecryptFileWrite(fsys, path, encrypted_hash, decrypted) ==
    IF ~decrypted.ok THEN Raised("InvalidToken", fsys)
    ELSE IF WriteExc(fsys, path) # "" THEN Raised(WriteExc(fsys, path), fsys)
    ELSE [exc |-> "",
          fs |-> WriteFile(fsys, path, decrypted.data),
          result |-> [status |-> "success",
                      file_path |-> path,
                      encrypted_hash |-> encrypted_hash,
                      decrypted_hash |->
                          calculate_file_hash(WriteFile(fsys, path, decrypted.data), path),
                      file_size |-> Len(decrypted.data)]]

\* the try block of decrypt_file: [exc, fs, result]
DecryptFileTry(fsys, fernet, path) ==
    IF ReadExc(fsys, path) # "" THEN Raised(ReadExc(fsys, path), fsys)
    ELSE Once(LAMBDA decrypted :
                  DecryptFileWrite(fsys, path, calculate_file_hash(fsys, path), decrypted),
              FernetDecrypt(fernet, fsys[path].data))

\* EncryptionEngine.decrypt_file: [fs, result, exc]
decrypt_file(fsys, fernet, path) ==
    Once(LAMBDA t : Caught(path, t), DecryptFileTry(fsys, fernet, path))

\* self.fernet = Fernet(key), fsys being the files after the key was read or written
KeyLoaded(fsys, key, fernet) ==
    IF fernet.ok THEN [exc |-> "", fs |-> fsys, key |-> key, fernet |-> fernet]
    ELSE [exc |-> "ValueError", fs |-> fsys, key |-> <<>>, fernet |-> <<>>]

\* the else branch of _load_or_generate_key: generate and write a key
GenerateKey(fsys, key_file, key) ==
    KeyLoaded(WriteFile(fsys, key_file, key), key, FernetNew(key))

\* a slip: a key file that holds no valid key is replaced by a new key
LoadOrGenerateKeyReplacingBad(fsys, key_file, random32) ==
    IF fsys[key_file].exists /\ ReadExc(fsys, key_file) = ""
          /\ FernetNew(fsys[key_file].data).ok
    THEN KeyLoaded(fsys, fsys[key_file].data, FernetNew(fsys[key_file].data))
    ELSE GenerateKey(fsys, key_file, FernetGenerateKey(random32))

\* a slip: the existing key file is not looked at, a key is always generated
LoadOrGenerateKeyAlwaysNew(fsys, key_file, random32) ==
    GenerateKey(fsys, key_file, FernetGenerateKey(random32))

\* EncryptionEngine._load_or_generate_key with the 32 random bytes random32 at
\* hand: [exc, fs, key, fernet]; an exception is logged and raised again
load_or_generate_key(fsys, key_file, random32) ==
    IF fsys[key_file].exists
    THEN IF ReadExc(fsys, key_file) # ""
         THEN [exc |-> ReadExc(fsys, key_file), fs |-> fsys, key |-> <<>>, fernet |-> <<>>]
         ELSE KeyLoaded(fsys, fsys[key_file].data, FernetNew(fsys[key_file].data))
    ELSE GenerateKey(fsys, key_file, FernetGenerateKey(random32))

\* a slip: the outer try is missing and the exception of open() escapes
IsEncryptedFileCallUnguarded(fsys, path) ==
    IF ReadExc(fsys, path) # "" THEN [raised |-> TRUE, value |-> FALSE]
    ELSE [raised |-> FALSE, value |-> LooksEncrypted(fsys[path].data)]

SaltLen == 16

\* PBKDF2HMAC(SHA256, length, salt, iterations).derive(password) for a length of
\* one hash block: the first block of the key stream, the iterations left out
Pbkdf2Hmac(password, salt, length) == Take(Hmac(password, salt \o <<0, 0, 0, 1>>), length)

\* the salt argument of derive_key_from_password: None or bytes
NoSalt == [given |-> FALSE, bytes |-> <<>>]

GivenSalt(bytes) == [given |-> TRUE, bytes |-> bytes]

\* a slip: the salt that was passed in is dropped for a fresh one
SaltAlwaysFresh(salt, random16) == random16

\* the salt in use: the argument, or secrets.token_bytes(16) if it is None
SaltInUse(salt, random16) == IF salt.given THEN salt.bytes ELSE random16

DerivedKey(password, salt) ==
    [key |-> B64Encode(Pbkdf2Hmac(password, salt, KeyLen)), salt |-> salt]

\* EncryptionEngine.derive_key_from_password with the 16 random bytes random16
\* at hand: [key, salt]
derive_key_from_password(password, salt, random16) ==
    DerivedKey(password, SaltInUse(salt, random16))

\* calculate_file_hash called from outside: [raised, exc, value]
calculate_file_hash_call(fsys, path) ==
    IF ReadExc(fsys, path) # ""
    THEN [raised |-> TRUE, exc |-> ReadExc(fsys, path), value |-> <<>>]
    ELSE [raised |-> FALSE, exc |-> "", value |-> calculate_file_hash(fsys, path)]

\* key.py and utils/generate_key.py: a new key is written to key.txt, whatever
\* is there; [exc, fs]
generate_key(fsys, random32) ==
    IF WriteExc(fsys, "key.txt") # "" THEN [exc |-> WriteExc(fsys, "key.txt"), fs |-> fsys]
    ELSE [exc |-> "", fs |-> WriteFile(fsys, "key.txt", FernetGenerateKey(random32))]

\* is_encrypted_file: [raised, value]; every exception of open() and read() is
\* caught and answered with False
is_encrypted_file_call(fsys, path) ==
    IF ReadExc(fsys, path) # "" THEN [raised |-> FALSE, value |-> FALSE]
    ELSE [raised |-> FALSE, value |-> LooksEncrypted(fsys[path].data)]

is_encrypted_file(fsys, path) == is_encrypted_file_call(fsys, path).value

\* ------------------------------------------------------ GUI batch worker

\* Path(directory).iterdir() filtered by is_file()
ListDir(fsys, directory) == {p \in Paths : DirOf(p) = directory /\ fsys[p].exists}

\* a slip: the worker takes every file of the directory
EncryptSelectionAll(fsys, directory) == ListDir(fsys, directory)

\* the files the encrypt worker selects
EncryptSelection(fsys, directory) ==
    {p \in ListDir(fsys, directory) : ~is_encrypted_file(fsys, p)}

NoResult == [status |-> "none"]

RECURSIVE EncryptEach(_, _, _, _, _, _)
\* a slip: the loop is left at the first file that fails
EncryptNextStopping(fernet, files, now, ivs, results, p, r) ==
    IF r.result.status # "success"
    THEN [fs |-> r.fs, results |-> [results EXCEPT ![p] = r.result]]
    ELSE EncryptEach(r.fs, fernet, files \ {p}, now, ivs, [results EXCEPT ![p] = r.result])

\* one round of the worker's loop: file p was encrypted with outcome r
EncryptNext(fernet, files, now, ivs, results, p, r) ==
    EncryptEach(r.fs, fernet, files \ {p}, now, ivs, [results EXCEPT ![p] = r.result])

EncryptOne(fsys, fernet, files, now, ivs, results, p) ==
    EncryptNext(fernet, files, now, ivs, results, p,
                encrypt_file(fsys, fernet, p, FALSE, now, ivs[p]))

\* the loop of _encrypt_files_thread over the selected files, each file
\* encrypted with its own random IV: [fs, results]
EncryptEach(fsys, fernet, files, now, ivs, results) ==
    IF files = {} THEN [fs |-> fsys, results |-> results]
    ELSE EncryptOne(fsys, fernet, files, now, ivs, results, CHOOSE q \in files : TRUE)

EncryptSelected(fsys, fernet, files, now, ivs) ==
    [called |-> files,
     done |-> EncryptEach(fsys, fernet, files, now, ivs, [p \in Paths |-> NoResult])]

\* ModernGUI._encrypt_files_thread: [called, done: [fs, results]]
encrypt_files_thread(fsys, fernet, directory, now, ivs) ==
    EncryptSelected(fsys, fernet, EncryptSelection(fsys, directory), now, ivs)

\* ------------------------------------------------------------------ CLI

\* directory.rglob("*") filtered by is_file(): the files of the directory and
\* of the directories below it; "files" lies in the working directory "."
AllFiles(fsys, directory) ==
    {p \in Paths : fsys[p].exists /\ (DirOf(p) = directory \/ directory = ".")}

\* the files decrypt_directory selects
DecryptSelection(fsys, directory) ==
    {p \in AllFiles(fsys, directory) : Suffix(p) = ".encrypted"}

\* one round of the loop of decrypt_directory: file p was decrypted with outcome r
RECURSIVE DecryptEach(_, _, _, _)
DecryptNext(fernet, files, results, p, r) ==
    DecryptEach(r.fs, fernet, files \ {p}, [results EXCEPT ![p] = r.result])

DecryptOne(fsys, fernet, files, results, p) ==
    DecryptNext(fernet, files, results, p, decrypt_file(fsys, fernet, p))

\* the loop of decrypt_directory; CLI.decrypt_file calls engine.decrypt_file
\* on each file, which exists: [fs, results]
DecryptEach(fsys, fernet, files, results) ==
    IF files = {} THEN [fs |-> fsys, results |-> results]
    ELSE DecryptOne(fsys, fernet, files, results, CHOOSE q \in files : TRUE)

\* success_count and the value returned by the two directory methods
SuccessCount(files, results) ==
    Cardinality({p \in files : results[p].status = "success"})

DirectoryDone(files, done) ==
    [called |-> files, done |-> done,
     success_count |-> SuccessCount(files, done.results),
     returned |-> files # {} /\ SuccessCount(files, done.results) = Cardinality(files)]

\* CLI.encrypt_directory; CLI.encrypt_file calls engine.encrypt_file on each
\* file, which exists: [called, done: [fs, results], success_count, returned]
encrypt_directory(fsys, fernet, directory, now, ivs) ==
    DirectoryDone(AllFiles(fsys, directory),
                  EncryptEach(fsys, fernet, AllFiles(fsys, directory), now, ivs,
                              [p \in Paths |-> NoResult]))

\* CLI.decrypt_directory: [called, done: [fs, results], success_count, returned]
decrypt_directory(fsys, fernet, directory) ==
    DirectoryDone(DecryptSelection(fsys, directory),
                  DecryptEach(fsys, fernet, DecryptSelection(fsys, directory),
                              [p \in Paths |-> NoResult]))

\* ------------------------------------------------------------ the system

\* greatest number of encryption layers the model has on the files at a time
MaxWrap == 2

Engines == {"e1", "e2"}

KeyFiles == {"key.txt", "key2.txt"}

\* "hello world"
Hello == <<104, 101, 108, 108, 111, 32, 119, 111, 114, 108, 100>>

\* file contents a user may hold: empty, short text, text of base64 letters
\* (44 and 45 of them), text that begins like a token (6 and 46 bytes), 50
\* blanks, 44 base64 letters followed by "!"
PlainSamples ==
    {<<>>, Hello, Rep(65, 44), Rep(65, 45), FernetPrefix,
     FernetPrefix \o Rep(33, 40), Rep(32, 50), Rep(65, 44) \o <<33>>}

\* os.urandom(32), n-th draw; os.urandom(16) and time.time(): the values the
\* model draws
RandomKey(n) == [i \in 1..32 |-> (7 * i + 61 * n) % 256]

RandomIVs == {[i \in 1..16 |-> (3 * i) % 256]}

Clock == {1762300800}

\* a key written by an earlier run of the program
OldKey == FernetGenerateKey([i \in 1..32 |-> (11 * i + 5) % 256])

\* what key.txt may hold before the first construction: text that is no
\* base64 (11 bytes, decoding fails), base64 of 33 bytes, 45 base64 letters
\* (decoding fails), a key of an earlier run, a file the process cannot read
KeyFileSamples ==
    {File(Hello, "rw"), File(Rep(65, 44), "rw"), File(Rep(65, 45), "rw"),
     File(OldKey, "ro"), File(OldKey, "none")}

\* the directory "files" holds one file of any sample content, or two files;
\* key.txt is absent, or present next to one file
InitialFiles ==
    {[p \in Paths |-> IF p = "f1" THEN File(s, "rw") ELSE NoFile] : s \in PlainSamples}
    \cup
    {[p \in Paths |-> IF p = "f1" THEN File(Hello, "rw")
                      ELSE IF p = "f2" THEN x ELSE NoFile]
        : x \in {File(Rep(65, 44), "rw"), File(Hello, "ro"), File(Rep(32, 50), "none")}}
    \cup
    {[p \in Paths |-> IF p = "f1" THEN File(Hello, "rw")
                      ELSE IF p = "key.txt" THEN k ELSE NoFile]
        : k \in KeyFileSamples}

VARIABLES
    fs,        \* path -> file
    engines,   \* engine variable -> the EncryptionEngine instance it holds
    drawn,     \* number of keys generated so far
    last,      \* the last call: its arguments, the files before it, what it returned
    prov,      \* path -> what the content is made of: plaintext and layers of keys
    sealed,    \* path -> the successful encrypt_file that wrote the current content
    threads    \* worker thread -> its call, its position in it and its local variables

vars == <<fs, engines, drawn, last, prov, sealed, threads>>

\* no worker thread is running
NoThreads == <<>>

\* peer: the engine constructed on the same key file by the call just before
NoEngine == [made |-> FALSE, key_file |-> "", key |-> <<>>, fernet |-> <<>>, peer |-> ""]

Unsealed == [valid |-> FALSE, eng |-> "", key |-> <<>>, plain |-> <<>>, hash |-> <<>>]

NoPrev == [valid |-> FALSE]

\* the record of a call: pre and made_of are the files and what they were made
\* of when it began, prior the encrypt_file that had written the file at path;
\* args and prev are used by the calls that take more arguments
Call(op, eng, path, result, exc) ==
    [op |-> op, eng |-> eng, path |-> path, result |-> result, exc |-> exc,
     pre |-> fs, made_of |-> prov,
     prior |-> IF path \in Paths THEN sealed[path] ELSE Unsealed,
     now |-> 0, iv |-> <<>>, called |-> {}, results |-> <<>>,
     args |-> <<>>, prev |-> NoPrev]

Init ==
    /\ fs \in InitialFiles
    /\ engines = [e \in Engines |-> NoEngine]
    /\ drawn = 0
    /\ prov = [p \in Paths |-> [plain |-> fs[p].data, keys |-> <<>>, known |-> TRUE]]
    /\ sealed = [p \in Paths |-> Unsealed]
    /\ last = Call("none", "", "", NoResult, "")
    /\ threads = NoThreads

\* the encryption layers now on the files
RECURSIVE LayersOn(_, _)
LayersOn(pv, paths) ==
    IF paths = {} THEN 0
    ELSE Len(pv[CHOOSE p \in paths : TRUE].keys)
         + LayersOn(pv, paths \ {CHOOSE p \in paths : TRUE})

Layers == LayersOn(prov, Paths)

\* what a path's content is made of after a call on it returned result
ProvAfterEncrypt(pv, key, result) ==
    IF result.status = "success" THEN [pv EXCEPT !.keys = Append(@, key)] ELSE pv

ProvAfterDecrypt(pv, key, result) ==
    IF result.status # "success" THEN pv
    ELSE IF pv.known /\ pv.keys # <<>> /\ pv.keys[Len(pv.keys)] = key
         THEN [pv EXCEPT !.keys = SubSeq(@, 1, Len(@) - 1)]
         ELSE [pv EXCEPT !.known = FALSE]

SealAfterEncrypt(e, key, pre, path, result) ==
    IF result.status = "success"
    THEN [valid |-> TRUE, eng |-> e, key |-> key, plain |-> pre[path].data,
          hash |-> result.original_hash]
    ELSE Unsealed

\* __init__ returned (r.exc = "") or raised what _load_or_generate_key raised
Constructed(e, key_file, r) ==
    /\ fs' = r.fs
    /\ drawn' = IF fs[key_file].exists THEN drawn ELSE drawn + 1
    /\ engines' = IF r.exc # "" THEN engines
                  ELSE [engines EXCEPT ![e] =
                           [made |-> TRUE, key_file |-> key_file, key |-> r.key,
                            fernet |-> r.fernet,
                            peer |-> IF last.op = "construct" /\ last.path = key_file
                                        /\ last.result.status = "constructed"
                                     THEN last.eng ELSE ""]]
    /\ last' = Call("construct", e, key_file,
                    IF r.exc = "" THEN [status |-> "constructed"]
                    ELSE [status |-> "raised"], r.exc)
    /\ prov' = IF fs[key_file].exists THEN prov
               ELSE [prov EXCEPT ![key_file] =
                        [plain |-> r.fs[key_file].data, keys |-> <<>>, known |-> TRUE]]
    /\ sealed' = sealed
    /\ threads' = threads

\* engine = EncryptionEngine(key_file)
Construct(e, key_file) ==
    /\ ~engines[e].made
    /\ e = "e1" => key_file = "key.txt"
    /\ e = "e2" => engines["e1"].made
    /\ Constructed(e, key_file, load_or_generate_key(fs, key_file, RandomKey(drawn)))

Encrypted(e, path, preserve_original, now, iv, r) ==
    /\ fs' = r.fs
    /\ last' = [Call("encrypt", e, path, r.result, r.exc) EXCEPT
                    !.now = now, !.iv = iv,
                    !.args = [preserve_original |-> preserve_original]]
    /\ prov' = [prov EXCEPT ![path] = ProvAfterEncrypt(@, engines[e].key, r.result)]
    /\ sealed' = [sealed EXCEPT ![path] =
                     SealAfterEncrypt(e, engines[e].key, fs, path, r.result)]
    /\ UNCHANGED <<engines, drawn, threads>>

\* engine.encrypt_file(path, preserve_original)
EncryptFile(e, path) ==
    /\ engines[e].made
    /\ Layers < MaxWrap
    /\ \E preserve_original \in BOOLEAN, now \in Clock, iv \in RandomIVs :
        Encrypted(e, path, preserve_original, now, iv,
                  encrypt_file(fs, engines[e].fernet, path, preserve_original, now, iv))

Decrypted(e, path, r) ==
    /\ fs' = r.fs
    /\ last' = Call("decrypt", e, path, r.result, r.exc)
    /\ prov' = [prov EXCEPT ![path] = ProvAfterDecrypt(@, engines[e].key, r.result)]
    /\ sealed' = [sealed EXCEPT ![path] = Unsealed]
    /\ UNCHANGED <<engines, drawn, threads>>

\* engine.decrypt_file(path)
DecryptFile(e, path) ==
    /\ engines[e].made
    /\ Decrypted(e, path, decrypt_file(fs, engines[e].fernet, path))

Checked(path, r) ==
    /\ last' = Call("check", "", path,
                    IF r.raised THEN [status |-> "raised"]
                    ELSE [status |-> "returned", value |-> r.value], "")
    /\ UNCHANGED <<fs, engines, drawn, prov, sealed, threads>>

\* is_encrypted_file(path)
CheckFile(path) == Checked(path, is_encrypted_file_call(fs, path))

GuiEncrypted(e, directory, now, r) ==
    /\ fs' = r.done.fs
    /\ last' = [Call("gui_encrypt", e, directory, [status |-> "finished"], "") EXCEPT
                    !.now = now, !.called = r.called, !.results = r.done.results]
    /\ prov' = [p \in Paths |->
                   IF p \in r.called
                   THEN ProvAfterEncrypt(prov[p], engines[e].key, r.done.results[p])
                   ELSE prov[p]]
    /\ sealed' = [p \in Paths |->
                     IF p \in r.called
                     THEN SealAfterEncrypt(e, engines[e].key, fs, p, r.done.results[p])
                     ELSE sealed[p]]
    /\ UNCHANGED <<engines, drawn, threads>>

\* a click on Encrypt with directory selected: the worker thread, start to end
GuiEncrypt(e, directory) ==
    /\ engines[e].made
    /\ \E now \in Clock, ivs \in [Paths -> RandomIVs] :
        /\ GuiEncrypted(e, directory, now,
                        encrypt_files_thread(fs, engines[e].fernet, directory, now, ivs))
        /\ Layers + Cardinality(last'.called) <= MaxWrap

Next ==
    \/ \E e \in Engines, key_file \in KeyFiles : Construct(e, key_file)
    \/ \E e \in Engines, path \in DataPaths : EncryptFile(e, path)
    \/ \E e \in Engines, path \in DataPaths : DecryptFile(e, path)
    \/ \E path \in DataPaths : CheckFile(path)
    \/ \E e \in Engines, directory \in Directories : GuiEncrypt(e, directory)

Spec == Init /\ [][Next]_vars

\* ------------------------------------------------------- key management

\* greatest number of random draws (keys and salts) in the key management runs
MaxDraws == 2

\* password.encode(): "pw", "wp" and "MyPw"
Passwords == {<<112, 119>>, <<119, 112>>, <<77, 121, 80, 119>>}

\* secrets.token_bytes(16), n-th draw
RandomSalt(n) == [i \in 1..16 |-> (5 * i + 17 * n + 1) % 256]

\* the salts a caller passes: none, a constant, one returned by an earlier call
SaltArgs == {NoSalt, GivenSalt(Rep(1, SaltLen)), GivenSalt(RandomSalt(0))}

InitKeys == Init /\ fs["f1"].data = Hello /\ ~fs["f2"].exists

\* a slip: the derived key is installed as the engine's key
EngineRekeyed(engine, r) == [engine EXCEPT !.key = r.key, !.fernet = FernetNew(r.key)]

\* the engine after derive_key_from_password returned r: nothing is assigned
\* to self
EngineAfterDerive(engine, r) == engine

\* prev: what the caller kept of an earlier call, NoPrev for nothing
Derived(e, password, salt, r, prev) ==
    /\ engines' = [engines EXCEPT ![e] = EngineAfterDerive(@, r)]
    /\ drawn' = IF salt.given THEN drawn ELSE drawn + 1
    /\ last' = [Call("derive", e, "", [status |-> "returned", key |-> r.key,
                                        salt |-> r.salt], "") EXCEPT
                    !.args = [password |-> password, salt |-> salt],
                    !.prev = prev]
    /\ UNCHANGED <<fs, prov, sealed, threads>>

\* engine.derive_key_from_password(password, salt)
DeriveKey(e, password, salt) ==
    /\ engines[e].made
    /\ salt.given \/ drawn < MaxDraws
    /\ Derived(e, password, salt,
               derive_key_from_password(password, salt, RandomSalt(drawn)), NoPrev)

\* a second engine.derive_key_from_password(password, salt) by a caller that
\* kept the arguments and the result of the call before
DeriveKeyAgain(e, password, salt) ==
    /\ engines[e].made
    /\ last.op = "derive"
    /\ salt.given \/ drawn < MaxDraws
    /\ Derived(e, password, salt,
               derive_key_from_password(password, salt, RandomSalt(drawn)),
               [valid |-> TRUE, args |-> last.args, result |-> last.result])

Hashed(e, path, r) ==
    /\ last' = Call("hash", e, path,
                    IF r.raised THEN [status |-> "raised"]
                    ELSE [status |-> "returned", value |-> r.value], r.exc)
    /\ UNCHANGED <<fs, engines, drawn, prov, sealed, threads>>

\* engine.calculate_file_hash(path)
HashFile(e, path) ==
    /\ engines[e].made
    /\ Hashed(e, path, calculate_file_hash_call(fs, path))

KeyGenerated(r) ==
    /\ fs' = r.fs
    /\ drawn' = drawn + 1
    /\ last' = Call("generate_key", "", "key.txt",
                    IF r.exc = "" THEN [status |-> "written"] ELSE [status |-> "raised"],
                    r.exc)
    /\ prov' = IF r.exc # "" THEN prov
               ELSE [prov EXCEPT !["key.txt"] =
                        [plain |-> r.fs["key.txt"].data, keys |-> <<>>, known |-> TRUE]]
    /\ UNCHANGED <<engines, sealed, threads>>

\* python key.py, python generate_key.py
RunGenerateKey ==
    /\ drawn < MaxDraws
    /\ KeyGenerated(generate_key(fs, RandomKey(drawn)))

NextKeys ==
    \/ \E e \in Engines : Construct(e, "key.txt")
    \/ \E e \in Engines : EncryptFile(e, "f1")
    \/ \E e \in Engines : DecryptFile(e, "f1")
    \/ \E e \in Engines, path \in DataPaths : HashFile(e, path)
    \/ \E e \in Engines, salt \in SaltArgs : DeriveKey(e, <<112, 119>>, salt)
    \/ RunGenerateKey

SpecKeys == InitKeys /\ [][NextKeys]_vars

\* key derivation alone: one engine, calls of derive_key_from_password
InitDerive ==
    /\ Init /\ fs["f1"].data = Hello /\ ~fs["f2"].exists
    /\ ~fs["key.txt"].exists \/ fs["key.txt"] = File(OldKey, "ro")

NextDerive ==
    \/ Construct("e1", "key.txt")
    \/ \E password \in Passwords, salt \in SaltArgs : DeriveKey("e1", password, salt)
    \/ \E password \in Passwords, salt \in SaltArgs : DeriveKeyAgain("e1", password, salt)

SpecDerive == InitDerive /\ [][NextDerive]_vars

\* ------------------------------------------------------------- CLI runs

\* the directory "files" before a CLI run: f1 of any of four contents, with
\* or without a second file and a file named *.encrypted; or a read-only f1
\* and a second file
CliFiles ==
    {[p \in Paths |-> IF p = "f1" THEN File(s, "rw")
                      ELSE IF p = "f2" THEN x
                      ELSE IF p = "f3.encrypted" THEN y
                      ELSE NoFile]
        : s \in {<<>>, Hello, Rep(32, 50), Rep(65, 44)},
          x \in {NoFile, File(Hello, "rw"), File(Hello, "ro")},
          y \in {NoFile, File(Hello, "rw"), File(Rep(65, 45), "rw")}}
    \cup
    {[p \in Paths |-> IF p = "f1" THEN File(Hello, "ro")
                      ELSE IF p = "f2" THEN File(Hello, "rw") ELSE NoFile]}

\* the CLI's engine: self.encryption_engine = EncryptionEngine()
CliEngine == "e1"

CliEncrypted(directory, now, r) ==
    /\ fs' = r.done.fs
    /\ last' = [Call("cli_encrypt", CliEngine, directory,
                     [status |-> "returned", value |-> r.returned,
                      success_count |-> r.success_count], "") EXCEPT
                    !.now = now, !.called = r.called, !.results = r.done.results]
    /\ prov' = [p \in Paths |->
                   IF p \in r.called
                   THEN ProvAfterEncrypt(prov[p], engines[CliEngine].key, r.done.results[p])
                   ELSE prov[p]]
    /\ sealed' = [p \in Paths |->
                     IF p \in r.called
                     THEN SealAfterEncrypt(CliEngine, engines[CliEngine].key, fs, p,
                                           r.done.results[p])
                     ELSE sealed[p]]
    /\ UNCHANGED <<engines, drawn, threads>>

\* python -m encryptdecrypt encrypt directory
CliEncryptDirectory(directory) ==
    /\ engines[CliEngine].made
    /\ Layers + Cardinality(AllFiles(fs, directory)) <= MaxWrap
    /\ \E now \in Clock, ivs \in [Paths -> RandomIVs] :
          CliEncrypted(directory, now,
                       encrypt_directory(fs, engines[CliEngine].fernet, directory, now, ivs))

CliDecrypted(directory, r) ==
    /\ fs' = r.done.fs
    /\ last' = [Call("cli_decrypt", CliEngine, directory,
                     [status |-> "returned", value |-> r.returned,
                      success_count |-> r.success_count], "") EXCEPT
                    !.called = r.called, !.results = r.done.results]
    /\ prov' = [p \in Paths |->
                   IF p \in r.called
                   THEN ProvAfterDecrypt(prov[p], engines[CliEngine].key, r.done.results[p])
                   ELSE prov[p]]
    /\ sealed' = [p \in Paths |-> IF p \in r.called THEN Unsealed ELSE sealed[p]]
    /\ UNCHANGED <<engines, drawn, threads>>

\* python -m encryptdecrypt decrypt directory
CliDecryptDirectory(directory) ==
    /\ engines[CliEngine].made
    /\ CliDecrypted(directory, decrypt_directory(fs, engines[CliEngine].fernet, directory))

NewKeyGenerated(r) ==
    /\ fs' = r.fs
    /\ drawn' = IF fs["key.txt"].exists THEN drawn ELSE drawn + 1
    /\ engines' = IF r.exc # "" THEN engines
                  ELSE [engines EXCEPT ![CliEngine] =
                           [made |-> TRUE, key_file |-> "key.txt", key |-> r.key,
                            fernet |-> r.fernet, peer |-> ""]]
    /\ last' = [Call("generate_new_key", CliEngine, "key.txt",
                     [status |-> IF r.exc = "" THEN "generated" ELSE "error"], r.exc)
                    EXCEPT !.prev = [valid |-> TRUE, key |-> engines[CliEngine].key]]
    /\ UNCHANGED <<prov, sealed, threads>>

\* CLI.generate_new_key: self.encryption_engine = EncryptionEngine(), an
\* exception is printed and the old engine stays
CliGenerateNewKey ==
    /\ engines[CliEngine].made
    /\ NewKeyGenerated(load_or_generate_key(fs, "key.txt", RandomKey(drawn)))

InitCliRun ==
    /\ fs \in CliFiles
    /\ engines = [e \in Engines |-> NoEngine]
    /\ drawn = 0
    /\ prov = [p \in Paths |-> [plain |-> fs[p].data, keys |-> <<>>, known |-> TRUE]]
    /\ sealed = [p \in Paths |-> Unsealed]
    /\ last = Call("none", "", "", NoResult, "")
    /\ threads = NoThreads

NextCli ==
    \/ Construct(CliEngine, "key.txt")
    \/ \E directory \in Directories : CliEncryptDirectory(directory)
    \/ \E directory \in Directories : CliDecryptDirectory(directory)
    \/ CliGenerateNewKey

SpecCli == InitCliRun /\ [][NextCli]_vars

\* --------------------------------------------------------- worker threads

Threads == {"t1", "t2"}

\* each thread works on a path of its own
PathOf(t) == IF t = "t1" THEN "f1" ELSE "f2"

\* the key of the one engine the threads share
SharedKey == FernetGenerateKey(RandomKey(0))

\* a thread about to call op on path; hash1, data, out and hash2 are the local
\* variables original_hash / encrypted_hash, data / encrypted_data,
\* encrypted_data / decrypted_data and the hash taken after the write
NewThread(op, path, now, iv) ==
    [op |-> op, path |-> path, now |-> now, iv |-> iv, pc |-> "hash",
     hash1 |-> <<>>, data |-> <<>>, out |-> <<>>, result |-> NoResult,
     overlapped |-> FALSE]

\* what the files of two threads may hold: nothing, text, text that may not be
\* written, a token of the engine
ThreadFiles ==
    {NoFile, File(Hello, "rw"), File(Hello, "ro"),
     File(FernetEncrypt(FernetNew(SharedKey), Hello, 1762300800,
                        [i \in 1..16 |-> (3 * i) % 256]), "rw")}

InitThreads ==
    /\ \E x, y \in ThreadFiles :
          fs = [p \in Paths |-> IF p = "key.txt" THEN File(SharedKey, "rw")
                                ELSE IF p = "f1" THEN x
                                ELSE IF p = "f2" THEN y
                                ELSE NoFile]
    /\ engines = [e \in Engines |->
                     IF e = "e1"
                     THEN [made |-> TRUE, key_file |-> "key.txt", key |-> SharedKey,
                           fernet |-> FernetNew(SharedKey), peer |-> ""]
                     ELSE NoEngine]
    /\ drawn = 1
    /\ prov = [p \in Paths |-> [plain |-> fs[p].data, keys |-> <<>>, known |-> TRUE]]
    /\ sealed = [p \in Paths |-> Unsealed]
    /\ last = Call("threads", "e1", "", NoResult, "")
    /\ threads \in {[t \in Threads |-> NewThread(ops[t], PathOf(t), now, iv)] :
                        ops \in [Threads -> {"encrypt", "decrypt"}],
                        now \in Clock, iv \in RandomIVs}

\* a thread is between the first and the last step of its call
Running(th) == th.pc \notin {"hash", "done"}

\* an exception ends the call in the except clause
Failed(th, exc) == [th EXCEPT !.pc = "done", !.result = ErrorResult(th.path, exc)]

\* a slip: the bytes read are kept in an attribute of the engine, which the
\* threads share
ThreadsAfterReadShared(run, t, data) ==
    [u \in Threads |->
        IF u = t THEN [run[u] EXCEPT !.pc = "transform", !.data = data]
        ELSE [run[u] EXCEPT !.data = data]]

\* data = file.read() assigns a local variable of the calling thread
ThreadsAfterRead(run, t, data) ==
    [run EXCEPT ![t] = [@ EXCEPT !.pc = "transform", !.data = data]]

\* the result of self.fernet.encrypt / self.fernet.decrypt on the thread's data
Transformed(th, fernet) ==
    IF th.op = "encrypt"
    THEN [ok |-> TRUE, data |-> FernetEncrypt(fernet, th.data, th.now, th.iv)]
    ELSE FernetDecrypt(fernet, th.data)

AfterTransform(th, r) ==
    IF r.ok THEN [th EXCEPT !.pc = "open", !.out = r.data] ELSE Failed(th, "InvalidToken")

\* the dict returned after the second hash
SuccessResult(th, hash2) ==
    IF th.op = "encrypt"
    THEN [status |-> "success", file_path |-> th.path,
          original_hash |-> th.hash1, encrypted_hash |-> hash2,
          file_size |-> Len(th.data), encrypted_size |-> Len(th.out)]
    ELSE [status |-> "success", file_path |-> th.path,
          encrypted_hash |-> th.hash1, decrypted_hash |-> hash2,
          file_size |-> Len(th.out)]

\* the thread took a step while another thread was inside its call
Overlap(run, t) ==
    [run EXCEPT ![t].overlapped = @ \/ \E u \in Threads \ {t} : Running(threads[u])]

\* self.calculate_file_hash(file_path) at the start of the try block
StepHash(t) ==
    /\ threads[t].pc = "hash"
    /\ threads' = Overlap(
          [threads EXCEPT ![t] =
              IF ReadExc(fs, @.path) # "" THEN Failed(@, ReadExc(fs, @.path))
              ELSE [@ EXCEPT !.pc = "read",
                             !.hash1 = calculate_file_hash(fs, threads[t].path)]], t)
    /\ UNCHANGED <<fs, engines, drawn, last, prov, sealed>>

\* with open(file_path, "rb") as file: data = file.read()
StepRead(t) ==
    /\ threads[t].pc = "read"
    /\ threads' = Overlap(
          IF ReadExc(fs, threads[t].path) # ""
          THEN [threads EXCEPT ![t] = Failed(@, ReadExc(fs, @.path))]
          ELSE ThreadsAfterRead(threads, t, fs[threads[t].path].data), t)
    /\ UNCHANGED <<fs, engines, drawn, last, prov, sealed>>

\* self.fernet.encrypt(data) / self.fernet.decrypt(encrypted_data)
StepTransform(t) ==
    /\ threads[t].pc = "transform"
    /\ threads' = Overlap(
          [threads EXCEPT ![t] =
              AfterTransform(@, Transformed(@, engines["e1"].fernet))], t)
    /\ UNCHANGED <<fs, engines, drawn, last, prov, sealed>>

\* open(file_path, "wb"): the file is created or truncated
StepOpen(t) ==
    /\ threads[t].pc = "open"
    /\ threads' = Overlap(
          [threads EXCEPT ![t] =
              IF WriteExc(fs, @.path) # "" THEN Failed(@, WriteExc(fs, @.path))
              ELSE [@ EXCEPT !.pc = "write"]], t)
    /\ fs' = IF WriteExc(fs, threads[t].path) # "" THEN fs
             ELSE WriteFile(fs, threads[t].path, <<>>)
    /\ UNCHANGED <<engines, drawn, last, prov, sealed>>

\* file.write(...) and the close at the end of the with block
StepWrite(t) ==
    /\ threads[t].pc = "write"
    /\ threads' = Overlap([threads EXCEPT ![t].pc = "hash2"], t)
    /\ fs' = WriteFile(fs, threads[t].path, threads[t].out)
    /\ UNCHANGED <<engines, drawn, last, prov, sealed>>

\* self.calculate_file_hash(file_path) after the write, and the return
StepReturn(t) ==
    /\ threads[t].pc = "hash2"
    /\ threads' = Overlap(
          [threads EXCEPT ![t] =
              [@ EXCEPT !.pc = "done",
                        !.result = SuccessResult(threads[t],
                                                 calculate_file_hash(fs, threads[t].path))]], t)
    /\ UNCHANGED <<fs, engines, drawn, last, prov, sealed>>

NextThreads ==
    \/ \E t \in Threads : StepHash(t)
    \/ \E t \in Threads : StepRead(t)
    \/ \E t \in Threads : StepTransform(t)
    \/ \E t \in Threads : StepOpen(t)
    \/ \E t \in Threads : StepWrite(t)
    \/ \E t \in Threads : StepReturn(t)

SpecThreads == InitThreads /\ [][NextThreads]_vars

\* -------------------------------------------------------------- GUI runs

\* the window: threads holds the state of its two buttons and the selected
\* directory under "gui", next to the worker threads the clicks have started
Gui == "gui"

\* the selected directory exists, or was removed after it was selected
GuiDirectories == {"files", "gone"}

Widgets(encrypt_button, decrypt_button, directory) ==
    [encrypt_button |-> encrypt_button, decrypt_button |-> decrypt_button,
     selected_directory |-> directory]

NoWorker == [pc |-> "idle", kind |-> "", directory |-> "", files |-> {},
             processed |-> 0, exc |-> ""]

\* threading.Thread(target=..., args=(directory,)).start()
Started(kind, directory) ==
    [pc |-> "started", kind |-> kind, directory |-> directory, files |-> {},
     processed |-> 0, exc |-> ""]

\* the directory "files" when the window opens: one plaintext file, or one
\* file of 44 base64 letters
GuiFiles ==
    {[p \in Paths |-> IF p = "key.txt" THEN File(SharedKey, "rw")
                      ELSE IF p = "f1" THEN File(s, "rw")
                      ELSE NoFile] : s \in {Hello, Rep(65, 44)}}

InitGui ==
    /\ fs \in GuiFiles
    /\ engines = [e \in Engines |->
                     IF e = "e1"
                     THEN [made |-> TRUE, key_file |-> "key.txt", key |-> SharedKey,
                           fernet |-> FernetNew(SharedKey), peer |-> ""]
                     ELSE NoEngine]
    /\ drawn = 1
    /\ prov = [p \in Paths |-> [plain |-> fs[p].data, keys |-> <<>>, known |-> TRUE]]
    /\ sealed = [p \in Paths |-> Unsealed]
    /\ last = Call("gui", "e1", "", NoResult, "")
    /\ threads \in {[w \in Threads \cup {Gui} |->
                        IF w = Gui THEN Widgets("normal", "normal", directory)
                        ELSE NoWorker]
                       : directory \in GuiDirectories}
    /\ threads[Gui].selected_directory = "gone" => fs["f1"].data = Hello

\* a worker thread is between its start and its end
Working(w) == threads[w].pc \notin {"idle", "done"}

ButtonOf(kind) == IF kind = "encrypt" THEN "encrypt_button" ELSE "decrypt_button"

\* a click on Encrypt or Decrypt, which a disabled button does not deliver:
\* _encrypt_files or _decrypt_files starts a worker thread and returns
Click(kind, w) ==
    /\ threads[Gui][ButtonOf(kind)] = "normal"
    /\ ~Working(w)
    /\ threads' = [threads EXCEPT ![w] = Started(kind, threads[Gui].selected_directory)]
    /\ UNCHANGED <<fs, engines, drawn, last, prov, sealed>>

\* self.encrypt_button.configure(state="disabled")
WorkerDisableEncrypt(w) ==
    /\ threads[w].pc = "started"
    /\ threads' = [threads EXCEPT ![w] = [threads[w] EXCEPT !.pc = "disable2"],
                                  ![Gui] = [threads[Gui] EXCEPT
                                               !.encrypt_button = "disabled"]]
    /\ UNCHANGED <<fs, engines, drawn, last, prov, sealed>>

\* self.decrypt_button.configure(state="disabled")
WorkerDisableDecrypt(w) ==
    /\ threads[w].pc = "disable2"
    /\ threads' = [threads EXCEPT ![w] = [threads[w] EXCEPT !.pc = "select"],
                                  ![Gui] = [threads[Gui] EXCEPT
                                               !.decrypt_button = "disabled"]]
    /\ UNCHANGED <<fs, engines, drawn, last, prov, sealed>>

\* Path(directory).iterdir() on a directory that is not there
IterdirExc(directory) == IF directory \in Directories THEN "" ELSE "FileNotFoundError"

\* a slip: the files are chosen by their name, as the CLI does
GuiDecryptSelectionBySuffix(fsys, directory) ==
    {p \in ListDir(fsys, directory) : Suffix(p) = ".encrypted"}

\* the files the decrypt worker selects
GuiDecryptSelection(fsys, directory) ==
    {p \in ListDir(fsys, directory) : is_encrypted_file(fsys, p)}

WorkerSelection(fsys, kind, directory) ==
    IF kind = "encrypt" THEN EncryptSelection(fsys, directory)
    ELSE GuiDecryptSelection(fsys, directory)

\* a slip: the early return leaves the function without the finally clause
AfterSelectReturning(files) == IF files = {} THEN "done" ELSE "loop"

\* if not files: ... return, which runs the finally clause
AfterSelect(files) == IF files = {} THEN "finally" ELSE "loop"

Selected(w, files) ==
    [threads EXCEPT ![w] = [threads[w] EXCEPT !.pc = AfterSelect(files), !.files = files]]

\* files = [f for f in Path(directory).iterdir() if ...]; an exception of
\* iterdir goes to the except clause
WorkerSelect(w) ==
    /\ threads[w].pc = "select"
    /\ threads' = IF IterdirExc(threads[w].directory) # ""
                  THEN [threads EXCEPT ![w] =
                           [threads[w] EXCEPT !.pc = "except",
                                              !.exc = IterdirExc(threads[w].directory)]]
                  ELSE Selected(w, WorkerSelection(fs, threads[w].kind,
                                                   threads[w].directory))
    /\ UNCHANGED <<fs, engines, drawn, last, prov, sealed>>

\* engine.encrypt_file or engine.decrypt_file on the file p of the loop
WorkerCall(kind, p, now, iv) ==
    IF kind = "encrypt" THEN encrypt_file(fs, engines["e1"].fernet, p, FALSE, now, iv)
    ELSE decrypt_file(fs, engines["e1"].fernet, p)

WorkerFileDone(w, p, r) ==
    /\ fs' = r.fs
    /\ threads' = [threads EXCEPT ![w] =
                      [threads[w] EXCEPT
                          !.pc = IF threads[w].files = {p} THEN "finally" ELSE "loop",
                          !.files = threads[w].files \ {p},
                          !.processed = threads[w].processed + 1]]

\* one round of the worker's loop
WorkerFile(w) ==
    /\ threads[w].pc = "loop"
    /\ \E now \in Clock, iv \in RandomIVs, p \in {CHOOSE q \in threads[w].files : TRUE} :
          WorkerFileDone(w, p, WorkerCall(threads[w].kind, p, now, iv))
    /\ UNCHANGED <<engines, drawn, last, prov, sealed>>

\* except Exception as e: self.status_var.set(...); logger.error(...)
WorkerExcept(w) ==
    /\ threads[w].pc = "except"
    /\ threads' = [threads EXCEPT ![w] = [threads[w] EXCEPT !.pc = "finally"]]
    /\ UNCHANGED <<fs, engines, drawn, last, prov, sealed>>

\* finally: self.encrypt_button.configure(state="normal")
WorkerEnableEncrypt(w) ==
    /\ threads[w].pc = "finally"
    /\ threads' = [threads EXCEPT ![w] = [threads[w] EXCEPT !.pc = "enable2"],
                                  ![Gui] = [threads[Gui] EXCEPT
                                               !.encrypt_button = "normal"]]
    /\ UNCHANGED <<fs, engines, drawn, last, prov, sealed>>

\* self.decrypt_button.configure(state="normal"), and the end of the thread
WorkerEnableDecrypt(w) ==
    /\ threads[w].pc = "enable2"
    /\ threads' = [threads EXCEPT ![w] = [threads[w] EXCEPT !.pc = "done"],
                                  ![Gui] = [threads[Gui] EXCEPT
                                               !.decrypt_button = "normal"]]
    /\ UNCHANGED <<fs, engines, drawn, last, prov, sealed>>

\* a step of the worker thread w
WorkerStep(w) ==
    \/ WorkerDisableEncrypt(w)
    \/ WorkerDisableDecrypt(w)
    \/ WorkerSelect(w)
    \/ WorkerFile(w)
    \/ WorkerExcept(w)
    \/ WorkerEnableEncrypt(w)
    \/ WorkerEnableDecrypt(w)

NextGui ==
    \/ \E kind \in {"encrypt", "decrypt"}, w \in Threads : Click(kind, w)
    \/ \E w \in Threads : WorkerStep(w)

SpecGui == InitGui /\ [][NextGui]_vars

\* a started thread is scheduled again and again until it ends
SpecGuiFair == SpecGui /\ \A w \in Threads : WF_vars(WorkerStep(w))

\* ------------------------------------------------- encrypt, then decrypt

\* ModernGUI._decrypt_files_thread, and the decrypt loop of
\* examples/basic_usage.py: [called, done: [fs, results]]
decrypt_files_thread(fsys, fernet, directory) ==
    [called |-> GuiDecryptSelection(fsys, directory),
     done |-> DecryptEach(fsys, fernet, GuiDecryptSelection(fsys, directory),
                          [p \in Paths |-> NoResult])]

\* prev: the files before the encrypt pass, if that is what came just before
GuiDecrypted(e, directory, r) ==
    /\ fs' = r.done.fs
    /\ last' = [Call("gui_decrypt", e, directory, [status |-> "finished"], "") EXCEPT
                    !.called = r.called, !.results = r.done.results,
                    !.prev = IF last.op = "gui_encrypt" /\ last.eng = e
                                /\ last.path = directory
                             THEN [valid |-> TRUE, pre |-> last.pre, called |-> last.called]
                             ELSE NoPrev]
    /\ prov' = [p \in Paths |->
                   IF p \in r.called
                   THEN ProvAfterDecrypt(prov[p], engines[e].key, r.done.results[p])
                   ELSE prov[p]]
    /\ sealed' = [p \in Paths |-> IF p \in r.called THEN Unsealed ELSE sealed[p]]
    /\ UNCHANGED <<engines, drawn, threads>>

\* a click on Decrypt with directory selected: the worker thread, start to end
GuiDecrypt(e, directory) ==
    /\ engines[e].made
    /\ GuiDecrypted(e, directory, decrypt_files_thread(fs, engines[e].fernet, directory))

\* the directory "files" before the passes: f1 of any sample content, alone
\* or next to a second file
RouteFiles ==
    {[p \in Paths |-> IF p = "f1" THEN File(s, "rw")
                      ELSE IF p = "f2" THEN x
                      ELSE NoFile]
        : s \in PlainSamples,
          x \in {NoFile, File(Hello, "rw"), File(Rep(65, 44), "rw"), File(Hello, "ro")}}

InitRoute ==
    /\ fs \in RouteFiles
    /\ engines = [e \in Engines |-> NoEngine]
    /\ drawn = 0
    /\ prov = [p \in Paths |-> [plain |-> fs[p].data, keys |-> <<>>, known |-> TRUE]]
    /\ sealed = [p \in Paths |-> Unsealed]
    /\ last = Call("none", "", "", NoResult, "")
    /\ threads = NoThreads

NextRoute ==
    \/ Construct("e1", "key.txt")
    \/ \E directory \in Directories : GuiEncrypt("e1", directory)
    \/ \E directory \in Directories : GuiDecrypt("e1", directory)

SpecRoute == InitRoute /\ [][NextRoute]_vars

\* ------------------------------------------- key file among the files

\* the directory a batch pass is given: "files", or the working directory,
\* where key.txt lies
BatchDirectories == {"files", "."}

NextKeyDir ==
    \/ \E e \in Engines : Construct(e, "key.txt")
    \/ EncryptFile("e1", "f1")
    \/ DecryptFile("e1", "f1")
    \/ \E directory \in BatchDirectories : GuiEncrypt("e1", directory)
    \/ \E directory \in BatchDirectories : CliEncryptDirectory(directory)

SpecKeyDir == InitKeys /\ [][NextKeyDir]_vars

\* ------------------------------------------------ concurrent construction

\* two threads, each executing EncryptionEngine(key_file) on the same path;
\* the instance a thread constructs is held by the engine variable EngineOf(t)
EngineOf(t) == IF t = "t1" THEN "e1" ELSE "e2"

RaceKeyFile == "key.txt"

NewConstructor == [pc |-> "init", key |-> <<>>, exc |-> ""]

\* the key file is absent, or holds the key of an earlier run
InitRace ==
    /\ fs \in {[p \in Paths |-> IF p = RaceKeyFile THEN k ELSE NoFile]
                  : k \in {NoFile, File(OldKey, "rw")}}
    /\ engines = [e \in Engines |-> NoEngine]
    /\ drawn = 0
    /\ prov = [p \in Paths |-> [plain |-> fs[p].data, keys |-> <<>>, known |-> TRUE]]
    /\ sealed = [p \in Paths |-> Unsealed]
    /\ last = Call("none", "", "", NoResult, "")
    /\ threads = [t \in Threads |-> NewConstructor]

\* except Exception as e: logger.error(...); raise
KeyRaised(t, exc) == [threads EXCEPT ![t] = [threads[t] EXCEPT !.pc = "raised", !.exc = exc]]

\* self.key_file = key_file; self.fernet = None
KeyStepInit(t) ==
    /\ threads[t].pc = "init"
    /\ threads' = [threads EXCEPT ![t] = [threads[t] EXCEPT !.pc = "exists"]]
    /\ UNCHANGED <<fs, engines, drawn, last, prov, sealed>>

\* if os.path.exists(self.key_file)
KeyStepExists(t) ==
    /\ threads[t].pc = "exists"
    /\ threads' = [threads EXCEPT ![t] =
                      [threads[t] EXCEPT !.pc = IF fs[RaceKeyFile].exists THEN "read"
                                                ELSE "generate"]]
    /\ UNCHANGED <<fs, engines, drawn, last, prov, sealed>>

\* with open(self.key_file, "rb") as key_file: key = key_file.read()
KeyStepRead(t) ==
    /\ threads[t].pc = "read"
    /\ threads' = IF ReadExc(fs, RaceKeyFile) # ""
                  THEN KeyRaised(t, ReadExc(fs, RaceKeyFile))
                  ELSE [threads EXCEPT ![t] =
                           [threads[t] EXCEPT !.pc = "fernet", !.key = fs[RaceKeyFile].data]]
    /\ UNCHANGED <<fs, engines, drawn, last, prov, sealed>>

\* key = Fernet.generate_key()
KeyStepGenerate(t) ==
    /\ threads[t].pc = "generate"
    /\ threads' = [threads EXCEPT ![t] =
                      [threads[t] EXCEPT !.pc = "open",
                                         !.key = FernetGenerateKey(RandomKey(drawn))]]
    /\ drawn' = drawn + 1
    /\ UNCHANGED <<fs, engines, last, prov, sealed>>

\* open(self.key_file, "wb"): the file is created, or emptied if it is there
KeyStepOpen(t) ==
    /\ threads[t].pc = "open"
    /\ IF WriteExc(fs, RaceKeyFile) # ""
       THEN /\ threads' = KeyRaised(t, WriteExc(fs, RaceKeyFile))
            /\ fs' = fs
       ELSE /\ threads' = [threads EXCEPT ![t] = [threads[t] EXCEPT !.pc = "write"]]
            /\ fs' = WriteFile(fs, RaceKeyFile, <<>>)
    /\ UNCHANGED <<engines, drawn, last, prov, sealed>>

\* key_file.write(key) and the end of the with block
KeyStepWrite(t) ==
    /\ threads[t].pc = "write"
    /\ threads' = [threads EXCEPT ![t] = [threads[t] EXCEPT !.pc = "fernet"]]
    /\ fs' = WriteFile(fs, RaceKeyFile, threads[t].key)
    /\ UNCHANGED <<engines, drawn, last, prov, sealed>>

\* self.fernet = Fernet(key), and the return of __init__
KeyStepFernet(t) ==
    /\ threads[t].pc = "fernet"
    /\ IF FernetNew(threads[t].key).ok
       THEN /\ threads' = [threads EXCEPT ![t] = [threads[t] EXCEPT !.pc = "done"]]
            /\ engines' = [engines EXCEPT ![EngineOf(t)] =
                              [made |-> TRUE, key_file |-> RaceKeyFile,
                               key |-> threads[t].key,
                               fernet |-> FernetNew(threads[t].key), peer |-> ""]]
       ELSE /\ threads' = KeyRaised(t, "ValueError")
            /\ engines' = engines
    /\ UNCHANGED <<fs, drawn, last, prov, sealed>>

NextRace ==
    \/ \E t \in Threads : KeyStepInit(t)
    \/ \E t \in Threads : KeyStepExists(t)
    \/ \E t \in Threads : KeyStepRead(t)
    \/ \E t \in Threads : KeyStepGenerate(t)
    \/ \E t \in Threads : KeyStepOpen(t)
    \/ \E t \in Threads : KeyStepWrite(t)
    \/ \E t \in Threads : KeyStepFernet(t)

SpecRace == InitRace /\ [][NextRace]_vars

\* ------------------------------------------------------------ benchmarks

\* BenchmarkSuite.benchmark_encryption(files): each round calls
\* engine.encrypt_file(file_path, temp_path), where temp_path arrives as
\* preserve_original; nothing creates temp_path, so the hash of it raises
\* FileNotFoundError and the round ends in errors; temp_encrypted is removed
\* at the end: [called, done: [fs, results], file_results, errors]
benchmark_encryption(fsys, fernet, files, now, ivs) ==
    [called |-> files,
     done |-> EncryptEach(fsys, fernet, files, now, ivs, [p \in Paths |-> NoResult]),
     file_results |-> {},
     errors |-> files]

Benchmarked(directory, now, r) ==
    /\ fs' = r.done.fs
    /\ last' = [Call("benchmark", CliEngine, directory,
                     [status |-> "returned", file_results |-> r.file_results,
                      errors |-> r.errors], "") EXCEPT
                    !.now = now, !.called = r.called, !.results = r.done.results]
    /\ prov' = [p \in Paths |->
                   IF p \in r.called
                   THEN ProvAfterEncrypt(prov[p], engines[CliEngine].key, r.done.results[p])
                   ELSE prov[p]]
    /\ sealed' = [p \in Paths |->
                     IF p \in r.called
                     THEN SealAfterEncrypt(CliEngine, engines[CliEngine].key, fs, p,
                                           r.done.results[p])
                     ELSE sealed[p]]
    /\ UNCHANGED <<engines, drawn, threads>>

\* run_full_benchmark, step 3: benchmark_encryption on the files of the test
\* directory that the detector takes for not encrypted, if there are any
BenchmarkEncryption(directory) ==
    /\ engines[CliEngine].made
    /\ EncryptSelection(fs, directory) # {}
    /\ \E now \in Clock, ivs \in [Paths -> RandomIVs] :
          Benchmarked(directory, now,
                      benchmark_encryption(fs, engines[CliEngine].fernet,
                                           EncryptSelection(fs, directory), now, ivs))

NextBench ==
    \/ Construct(CliEngine, "key.txt")
    \/ \E directory \in Directories : BenchmarkEncryption(directory)

SpecBench == InitCliRun /\ [][NextBench]_vars

\* ------------------------------------------------------------ tampering

\* the byte v with bit b (0 the lowest) inverted
FlipBit(v, b) == IF (v \div (2 ^ b)) % 2 = 0 THEN v + 2 ^ b ELSE v - 2 ^ b

FlipAt(bytes, i, b) == [bytes EXCEPT ![i] = FlipBit(bytes[i], b)]

\* plaintexts whose tokens end in "==", in "=" and in no padding
TamperSamples == {Hello, Rep(66, 16), Rep(67, 32)}

InitTamper ==
    /\ fs \in {[p \in Paths |-> IF p = "f1" THEN File(s, "rw") ELSE NoFile]
                  : s \in TamperSamples}
    /\ engines = [e \in Engines |-> NoEngine]
    /\ drawn = 0
    /\ prov = [p \in Paths |-> [plain |-> fs[p].data, keys |-> <<>>, known |-> TRUE]]
    /\ sealed = [p \in Paths |-> Unsealed]
    /\ last = Call("none", "", "", NoResult, "")
    /\ threads = NoThreads

\* someone other than the program inverts bit b of byte i of the token that
\* encrypt_file wrote to path
TamperFile(path) ==
    /\ sealed[path].valid
    /\ Len(prov[path].keys) = 1
    /\ \E i \in 1..Len(fs[path].data), b \in 0..7 :
          /\ fs' = [fs EXCEPT ![path] = File(FlipAt(fs[path].data, i, b), fs[path].mode)]
          /\ last' = [Call("tamper", sealed[path].eng, path, NoResult, "") EXCEPT
                         !.args = [i |-> i, b |-> b]]
    /\ prov' = [prov EXCEPT ![path] = [prov[path] EXCEPT !.known = FALSE]]
    /\ sealed' = [sealed EXCEPT ![path] = Unsealed]
    /\ UNCHANGED <<engines, drawn, threads>>

DecryptedTampered(e, path, r) ==
    /\ fs' = r.fs
    /\ last' = [Call("decrypt", e, path, r.result, r.exc) EXCEPT
                    !.prev = [valid |-> TRUE, pre |-> last.pre, prior |-> last.prior,
                              args |-> last.args]]
    /\ prov' = [prov EXCEPT ![path] = ProvAfterDecrypt(prov[path], engines[e].key, r.result)]
    /\ sealed' = [sealed EXCEPT ![path] = Unsealed]
    /\ UNCHANGED <<engines, drawn, threads>>

\* engine.decrypt_file(path) by the engine that wrote the token, right after
\* the token was tampered with
DecryptTampered(e, path) ==
    /\ engines[e].made
    /\ last.op = "tamper" /\ last.path = path /\ last.eng = e
    /\ DecryptedTampered(e, path, decrypt_file(fs, engines[e].fernet, path))

NextTamper ==
    \/ Construct("e1", "key.txt")
    \/ EncryptFile("e1", "f1")
    \/ TamperFile("f1")
    \/ DecryptTampered("e1", "f1")

SpecTamper == InitTamper /\ [][NextTamper]_vars

\* ----------------------------------------------------------------- claims

IsCall(op) == last.op = op

Succeeded == last.result.status = "success"

\* the key a layer of encryption was made with, outermost layer last
TopKey(pv) == pv.keys[Len(pv.keys)]

\* C1: encrypt_file on a readable and writable file succeeds, and a decrypt_file
\* by the same engine that follows it with no other write to the path in
\* between succeeds, restores the content the file had before the encryption
\* and reports as decrypted_hash the original_hash of the encryption.
C1_RoundTrip ==
    /\ (IsCall("encrypt") /\ last.pre[last.path].exists
            /\ last.pre[last.path].mode = "rw") => Succeeded
    /\ (IsCall("decrypt") /\ last.prior.valid /\ last.prior.eng = last.eng) =>
            /\ Succeeded
            /\ fs[last.path].data = last.prior.plain
            /\ last.result.decrypted_hash = last.prior.hash

\* the empty file went through encrypt_file and decrypt_file of one engine
C1_Witness ==
    /\ IsCall("decrypt") /\ last.prior.valid /\ last.prior.eng = last.eng
    /\ last.prior.plain = <<>>
    /\ Succeeded /\ fs[last.path].data = <<>>

\* C2: decrypt_file returns "error" on a file that was never encrypted and on
\* a file whose outermost layer was made with a key other than the engine's.
C2_WrongKeyRejected ==
    (IsCall("decrypt")
        /\ \/ last.made_of[last.path].keys = <<>>
           \/ TopKey(last.made_of[last.path]) # engines[last.eng].key)
    => last.result.status = "error"

\* a readable token of another key was refused
C2_Witness ==
    /\ IsCall("decrypt")
    /\ last.made_of[last.path].keys # <<>>
    /\ TopKey(last.made_of[last.path]) # engines[last.eng].key
    /\ last.exc = "InvalidToken"
    /\ last.result.status = "error"

\* C3: a decrypt_file that fails because the content does not authenticate
\* leaves every file as it was.
C3_AllOrNothing ==
    (IsCall("decrypt") /\ last.exc = "InvalidToken") =>
        /\ last.result.status = "error"
        /\ fs = last.pre

\* a plaintext of 50 bytes was refused and is still there
C3_Witness ==
    /\ IsCall("decrypt") /\ last.exc = "InvalidToken"
    /\ last.pre[last.path].data = Rep(32, 50)
    /\ fs[last.path].data = Rep(32, 50)

\* C4: right after a successful encrypt_file the detector answers True for
\* the file.
C4_DetectorSound ==
    (IsCall("encrypt") /\ Succeeded) => is_encrypted_file(fs, last.path)

\* the empty file was encrypted and is detected
C4_Witness ==
    /\ IsCall("encrypt") /\ Succeeded
    /\ last.pre[last.path].data = <<>>
    /\ is_encrypted_file(fs, last.path)

\* C5: the batch encrypt worker calls encrypt_file on exactly the plaintext
\* files of the directory that the detector classifies as not encrypted, and
\* every file of the directory that holds a token of an engine is not called
\* on and keeps its bytes.
C5_BatchRouting ==
    IsCall("gui_encrypt") =>
        /\ last.called =
              {p \in ListDir(last.pre, last.path) :
                  last.made_of[p].keys = <<>> /\ ~is_encrypted_file(last.pre, p)}
        /\ \A p \in ListDir(last.pre, last.path) :
              last.made_of[p].keys # <<>> => (p \notin last.called /\ fs[p] = last.pre[p])

\* a batch over one plaintext file and one token: the first encrypted, the
\* second as it was
C5_Witness ==
    /\ IsCall("gui_encrypt")
    /\ \E p, q \in ListDir(last.pre, last.path) :
          /\ p \in last.called /\ last.results[p].status = "success"
          /\ fs[p] # last.pre[p]
          /\ last.made_of[q].keys # <<>> /\ q \notin last.called
          /\ fs[q] = last.pre[q]

\* C6: a construction on an absent key file creates it holding the engine's
\* key, a construction on an existing key file loads its bytes and writes
\* nothing; engines constructed on one key file hold one key, and a file that
\* one of them encrypted is decrypted successfully by the other.
C6_KeyPersistence ==
    /\ (IsCall("construct") /\ last.result.status = "constructed") =>
          /\ ~last.pre[last.path].exists =>
                /\ fs[last.path].exists
                /\ fs[last.path].data = engines[last.eng].key
          /\ last.pre[last.path].exists =>
                /\ fs = last.pre
                /\ engines[last.eng].key = last.pre[last.path].data
    /\ \A a, b \in Engines :
          (engines[a].made /\ engines[b].made
              /\ engines[a].key_file = engines[b].key_file)
          => engines[a].key = engines[b].key
    /\ (IsCall("decrypt") /\ last.prior.valid /\ last.prior.eng # last.eng
            /\ engines[last.prior.eng].key_file = engines[last.eng].key_file) =>
          /\ Succeeded
          /\ fs[last.path].data = last.prior.plain

\* the second engine on key.txt, constructed right after the first, decrypted
\* what the first had encrypted
C6_Witness ==
    /\ IsCall("decrypt") /\ last.eng = "e2" /\ engines["e2"].peer = "e1"
    /\ last.prior.valid /\ last.prior.eng = "e1"
    /\ engines["e2"].key_file = "key.txt"
    /\ fs["key.txt"].data = engines["e1"].key
    /\ Succeeded /\ fs[last.path].data = last.prior.plain

\* C7: after a successful encrypt_file the file holds exactly the token of its
\* previous content, and every other file is as it was.
C7_InPlace ==
    (IsCall("encrypt") /\ Succeeded) =>
        /\ fs[last.path].data =
              FernetEncrypt(engines[last.eng].fernet, last.pre[last.path].data,
                            last.now, last.iv)
        /\ \A p \in Paths \ {last.path} : fs[p] = last.pre[p]

\* "hello world" was replaced by its token while a second file stood by
C7_Witness ==
    /\ IsCall("encrypt") /\ Succeeded
    /\ last.pre[last.path].data = Hello
    /\ StartsWith(fs[last.path].data, FernetPrefix)
    /\ \E p \in DataPaths \ {last.path} : fs[p].exists /\ fs[p] = last.pre[p]

\* the fields of a successful encrypt_file result for a file that held
\* plain and now holds token
EncryptResultExact(result, plain, token) ==
    /\ result.original_hash = Sha256(plain)
    /\ result.encrypted_hash = Sha256(token)
    /\ result.file_size = Len(plain)
    /\ result.encrypted_size = Len(token)
    /\ result.encrypted_size > result.file_size

\* C8: a successful encrypt_file result, returned to the caller or collected
\* by the batch worker, carries the digest and length of the plaintext, the
\* digest and length of the token now in the file, and a token length greater
\* than the plaintext length.
C8_ResultFields ==
    /\ (IsCall("encrypt") /\ Succeeded) =>
          EncryptResultExact(last.result, last.pre[last.path].data, fs[last.path].data)
    /\ IsCall("gui_encrypt") =>
          \A p \in last.called :
              last.results[p].status = "success" =>
                  EncryptResultExact(last.results[p], last.pre[p].data, fs[p].data)

\* a token was encrypted once more and the result describes both layers
C8_Witness ==
    /\ IsCall("encrypt") /\ Succeeded
    /\ last.made_of[last.path].keys # <<>>
    /\ last.result.file_size >= 100
    /\ last.result.encrypted_size > last.result.file_size
    /\ last.result.original_hash = Sha256(last.pre[last.path].data)

\* C9: encrypt_file and decrypt_file return a result whose status is
\* "success" or "error", an error result carries a reason that is not empty,
\* and a call on a path that does not exist returns "error" and creates no
\* file.
C9_TaggedResult ==
    (IsCall("encrypt") \/ IsCall("decrypt")) =>
        /\ last.result.status \in {"success", "error"}
        /\ last.result.status = "error" => last.result.error # ""
        /\ ~last.pre[last.path].exists =>
              (last.result.status = "error" /\ ~fs[last.path].exists)

C11_BadKeyFileRejected ==
    (IsCall("construct") /\ last.pre[last.path].exists
        /\ last.pre[last.path].mode # "none"
        /\ \/ ~B64Decode(last.pre[last.path].data).ok
           \/ Len(B64Decode(last.pre[last.path].data).data) # KeyLen)
    =>  /\ last.result.status = "raised"
        /\ last.exc = "ValueError"
        /\ ~engines[last.eng].made
        /\ fs = last.pre

\* key.txt held the base64 of 33 bytes: the construction raised and the file
\* is still there
C11_Witness ==
    /\ IsCall("construct") /\ last.path = "key.txt"
    /\ last.pre["key.txt"].data = Rep(65, 44)
    /\ Len(B64Decode(last.pre["key.txt"].data).data) = KeyLen + 1
    /\ last.result.status = "raised" /\ last.exc = "ValueError"
    /\ ~engines[last.eng].made
    /\ fs["key.txt"].data = Rep(65, 44)

\* C12: the key and the Fernet object of a constructed engine are the same
\* after every step: encrypt_file, decrypt_file, calculate_file_hash,
\* derive_key_from_password, successful or failed, a construction of another
\* engine, a rewrite of key.txt.
C12_KeyImmutable ==
    [][\A e \in Engines :
          engines[e].made =>
              /\ engines'[e].made
              /\ engines'[e].key = engines[e].key
              /\ engines'[e].fernet = engines[e].fernet]_vars

\* an engine that derived a key from a password still holds the key it
\* generated at construction
C12_Witness ==
    /\ IsCall("derive") /\ last.eng = "e1"
    /\ engines["e1"].made
    /\ engines["e1"].key = FernetGenerateKey(RandomKey(0))
    /\ last.result.key # engines["e1"].key

\* C13: once key.txt exists, no operation writes other bytes to it.
C13_KeyFileWrittenOnce ==
    last.pre["key.txt"].exists =>
        /\ fs["key.txt"].exists
        /\ fs["key.txt"].data = last.pre["key.txt"].data

\* C20: derive_key_from_password returns a key of 44 bytes; with a salt passed
\* in it returns that salt, and two calls with the same password and the same
\* salt return the same key; with the salt omitted it returns a salt of 16
\* bytes, and two calls with the same password return different salts and
\* different keys.  (A fresh draw of secrets.token_bytes differs from the
\* draws before it, and PBKDF2 maps different salts to different keys.)
C20_DeriveDeterministic ==
    IsCall("derive") =>
        /\ Len(last.result.key) = 44
        /\ last.args.salt.given => last.result.salt = last.args.salt.bytes
        /\ ~last.args.salt.given => Len(last.result.salt) = SaltLen
        /\ (last.prev.valid /\ last.prev.args.password = last.args.password) =>
              /\ (last.prev.args.salt.given /\ last.args.salt.given
                    /\ last.prev.args.salt.bytes = last.args.salt.bytes) =>
                    /\ last.result.key = last.prev.result.key
                    /\ last.result.salt = last.prev.result.salt
              /\ (~last.prev.args.salt.given /\ ~last.args.salt.given) =>
                    /\ last.result.salt # last.prev.result.salt
                    /\ last.result.key # last.prev.result.key

\* the salt drawn by a first call was passed to a second and a third call
\* with the same password: the same key came back
C20_Witness ==
    /\ IsCall("derive") /\ last.prev.valid
    /\ last.prev.args.password = last.args.password
    /\ last.args.salt.given /\ last.prev.args.salt.given
    /\ last.args.salt.bytes = RandomSalt(0)
    /\ last.prev.args.salt.bytes = RandomSalt(0)
    /\ last.result.key = last.prev.result.key
    /\ last.result.salt = RandomSalt(0)

\* the results of the calls of op on path that fail while reading: the file
\* is missing or may not be read
ReadFailureResults(op, fsys, fernet, path, now, iv) ==
    {IF op = "encrypt" THEN encrypt_file(broken, fernet, path, FALSE, now, iv).result
                       ELSE decrypt_file(broken, fernet, path).result :
        broken \in {[fsys EXCEPT ![path] = x] :
                       x \in {NoFile, File(fsys[path].data, "none")}}}

\* C14: the result of an encrypt_file or decrypt_file whose write failed after
\* the read had succeeded differs from every result of the same call failing
\* while reading the file.
C14_WriteFailureDistinct ==
    ((IsCall("encrypt") \/ IsCall("decrypt"))
        /\ ReadExc(last.pre, last.path) = ""
        /\ last.exc # "" /\ last.exc = WriteExc(last.pre, last.path))
    => last.result \notin
          ReadFailureResults(last.op, last.pre, engines[last.eng].fernet, last.path,
                             last.now, last.iv)

\* C16: encrypt_file(path, preserve_original=True) on a readable and writable
\* file succeeds, leaves the content of the file as it was, and returns an
\* encrypted_path that names an existing file with another hash.
C16_PreserveOriginal ==
    (IsCall("encrypt") /\ last.args.preserve_original
        /\ last.pre[last.path].exists /\ last.pre[last.path].mode = "rw")
    =>  /\ Succeeded
        /\ fs[last.path].exists
        /\ fs[last.path].data = last.pre[last.path].data
        /\ "encrypted_path" \in DOMAIN last.result
        /\ fs[last.result.encrypted_path].exists
        /\ Sha256(fs[last.result.encrypted_path].data) # Sha256(last.pre[last.path].data)

\* C18: encrypt_file does not refuse a file that holds a token: it succeeds
\* and adds a layer; a decrypt_file with the key of the outermost layer
\* succeeds and removes exactly that layer; while layers remain the content is
\* a token that decrypts under the key of the layer now outermost, and a file
\* whose layers are all removed holds the original plaintext.
C18_DoubleWrap ==
    /\ (IsCall("encrypt") /\ last.made_of[last.path].keys # <<>>
            /\ last.pre[last.path].mode = "rw") =>
          /\ Succeeded
          /\ prov[last.path].keys =
                Append(last.made_of[last.path].keys, engines[last.eng].key)
    /\ (IsCall("decrypt") /\ last.made_of[last.path].keys # <<>>
            /\ TopKey(last.made_of[last.path]) = engines[last.eng].key) =>
          /\ Succeeded
          /\ Len(prov[last.path].keys) = Len(last.made_of[last.path].keys) - 1
          /\ prov[last.path].keys # <<>> =>
                FernetDecrypt(FernetNew(TopKey(prov[last.path])), fs[last.path].data).ok
    /\ \A p \in DataPaths :
          (fs[p].exists /\ prov[p].known /\ prov[p].keys = <<>>) =>
              fs[p].data = prov[p].plain

\* the first decrypt_file of a file encrypted twice: one layer is left and it
\* is a token of the engine
C18_Witness ==
    /\ IsCall("decrypt") /\ Succeeded
    /\ Len(last.made_of[last.path].keys) = 2
    /\ prov[last.path].keys = <<engines[last.eng].key>>
    /\ fs[last.path].data # prov[last.path].plain
    /\ FernetDecrypt(engines[last.eng].fernet, fs[last.path].data).ok
    /\ FernetDecrypt(engines[last.eng].fernet, fs[last.path].data).data
          = prov[last.path].plain

\* the bytes of the URL-safe base64 alphabet: A-Z a-z 0-9 - _
UrlSafeAlphabet == (65..90) \cup (97..122) \cup (48..57) \cup {45, 95}

\* C19: is_encrypted_file returns False for a readable file shorter than 44
\* bytes, and for one of 44 bytes or more that does not start with "gAAAAA"
\* and has a byte outside the URL-safe base64 alphabet among its first 50.
C19_PlaintextNotDetected ==
    (IsCall("check") /\ fs[last.path].exists /\ fs[last.path].mode # "none") =>
        /\ last.result.status = "returned"
        /\ Len(fs[last.path].data) < 44 => last.result.value = FALSE
        /\ (/\ Len(fs[last.path].data) >= 44
            /\ ~StartsWith(fs[last.path].data, FernetPrefix)
            /\ \E i \in 1..Min(50, Len(fs[last.path].data)) :
                  fs[last.path].data[i] \notin UrlSafeAlphabet)
           => last.result.value = FALSE

\* 44 base64 letters and a "!": long enough, decodable to 33 bytes, and
\* answered False because of the "!"
C19_Witness ==
    /\ IsCall("check")
    /\ fs[last.path].data = Rep(65, 44) \o <<33>>
    /\ B64Decode(fs[last.path].data).ok
    /\ Len(B64Decode(fs[last.path].data).data) >= MinDecodedLen
    /\ last.result.status = "returned" /\ last.result.value = FALSE

\* C17: a decrypt_directory over a directory whose files were all encrypted
\* once by the CLI's engine processes all of them, counts every one as
\* successful, returns True and restores their contents.
C17_CliRoundTrip ==
    (IsCall("cli_decrypt")
        /\ AllFiles(last.pre, last.path) # {}
        /\ \A p \in AllFiles(last.pre, last.path) :
              last.made_of[p].keys = <<engines[CliEngine].key>>)
    =>  /\ last.called = AllFiles(last.pre, last.path)
        /\ last.result.success_count = Cardinality(AllFiles(last.pre, last.path))
        /\ last.result.value = TRUE
        /\ \A p \in AllFiles(last.pre, last.path) : fs[p].data = last.made_of[p].plain

\* the call of a thread run alone on the files fsys: [fs, result, exc]
Alone(th, fsys) ==
    IF th.op = "encrypt"
    THEN encrypt_file(fsys, engines["e1"].fernet, th.path, FALSE, th.now, th.iv)
    ELSE decrypt_file(fsys, engines["e1"].fernet, th.path)

\* the calls of thread a and then of thread b, one after the other, on the
\* files fsys: the files at the end and the two results
OneAfterAnother(a, b, fsys) ==
    [fs |-> Alone(threads[b], Alone(threads[a], fsys).fs).fs,
     first |-> Alone(threads[a], fsys).result,
     second |-> Alone(threads[b], Alone(threads[a], fsys).fs).result]

\* C15: when the threads, each with a path of its own, have all returned,
\* the files and the result of each thread are those of the calls run one
\* after the other, in either order.
C15_ThreadsAsSequential ==
    (threads # NoThreads /\ \A t \in Threads : threads[t].pc = "done") =>
        \A a, b \in Threads :
            a # b =>
                /\ fs = OneAfterAnother(a, b, last.pre).fs
                /\ threads[a].result = OneAfterAnother(a, b, last.pre).first
                /\ threads[b].result = OneAfterAnother(a, b, last.pre).second

\* an encrypt_file and a decrypt_file ran with their steps interleaved and
\* both succeeded
C15_Witness ==
    /\ threads # NoThreads
    /\ \A t \in Threads : threads[t].pc = "done" /\ threads[t].overlapped
    /\ threads["t1"].op = "encrypt" /\ threads["t2"].op = "decrypt"
    /\ \A t \in Threads : threads[t].result.status = "success"
    /\ fs["f1"].data # last.pre["f1"].data
    /\ fs["f2"].data = Hello

\* C21: a decrypt_file, by the engine that wrote a token, of the token with a
\* single bit inverted returns status "error".
C21_TamperDetected ==
    (IsCall("decrypt") /\ last.prev.valid) => last.result.status = "error"

\* the inversions decrypt_file accepts are those the base64 decoder does not
\* see: the token decodes to the bytes it decoded to before
TamperAcceptedOnlyUnseen ==
    (IsCall("decrypt") /\ last.prev.valid /\ Succeeded)
        => /\ B64Decode(last.pre["f1"].data) = B64Decode(last.prev.pre["f1"].data)
           /\ fs["f1"].data = last.prev.prior.plain

\* C22: CLI.encrypt_directory calls encrypt_file on no file that holds a token
\* written by the engine, and so leaves no file under two layers of encryption.
C22_NoDoubleWrap ==
    IsCall("cli_encrypt")
        => /\ \A p \in last.called : last.made_of[p].keys = <<>>
           /\ \A p \in Paths : Len(prov[p].keys) <= 1

C24_SourcesUntouched ==
    IsCall("benchmark") => \A p \in last.called : fs[p] = last.pre[p]

\* C25: after a CLI.generate_new_key that reported no error, the CLI's engine
\* holds a key other than the one it held before the call.
C25_NewKeyDiffers ==
    (IsCall("generate_new_key") /\ last.exc = "")
        => engines[CliEngine].key # last.prev.key

\* C26: when two concurrent constructions on the same key file, absent when
\* they began (so that a key was generated), have both returned, the two
\* engines hold the same key, which is the content of the key file.
C26_ConcurrentSameKey ==
    (drawn > 0 /\ \A t \in Threads : threads[t].pc = "done")
        => /\ engines["e1"].key = engines["e2"].key
           /\ fs[RaceKeyFile].data = engines["e1"].key

\* C27: the key file of every constructed engine holds the key the engine
\* holds; no encrypt_file, decrypt_file or batch pass changes it.
C27_KeyFileIntact ==
    \A e \in Engines :
        engines[e].made => fs[engines[e].key_file].data = engines[e].key

\* C28: at most one GUI batch worker thread is running at any time.
C28_OneWorker ==
    Cardinality({w \in Threads : Working(w)}) <= 1

BothButtonsNormal ==
    /\ threads[Gui].encrypt_button = "normal"
    /\ threads[Gui].decrypt_button = "normal"

NoValidToken(fsys, directory, fernet) ==
    \A p \in ListDir(fsys, directory) : ~FernetDecrypt(fernet, fsys[p].data).ok

\* C30: a decrypt pass right after an encrypt pass by the same engine, over a
\* directory that held no valid token before the encrypt pass, leaves every
\* file of the directory as it was before the encrypt pass; the files the
\* detector takes for encrypted although they are plaintext are never changed.
C30_BatchRoundTrip ==
    (IsCall("gui_decrypt") /\ last.prev.valid
        /\ NoValidToken(last.prev.pre, last.path, engines[last.eng].fernet))
        => /\ \A p \in Paths : fs[p] = last.prev.pre[p]
           /\ \A p \in ListDir(fs, last.path) \ last.prev.called :
                 last.pre[p] = last.prev.pre[p]

\* a plaintext file was encrypted and decrypted, next to a plaintext file that
\* the detector took for encrypted
C30_Witness ==
    /\ IsCall("gui_decrypt") /\ last.prev.valid
    /\ NoValidToken(last.prev.pre, last.path, engines[last.eng].fernet)
    /\ \E p \in last.prev.called :
          p \in last.called /\ last.results[p].status = "success"
    /\ \E p \in last.called \ last.prev.called :
          is_encrypted_file(last.prev.pre, p) /\ last.results[p].status = "error"

====
